---- MODULE Spec2Model ----
(***************************************************************************)
(* The supervisor tick of mlcomp (mlcomp/server/back/supervisor.py) and    *)
(* the TaskProvider queries it relies on (mlcomp/db/providers/task.py).    *)
(*                                                                         *)
(* The persisted store is the variables tasks / deps / celery / revoked /  *)
(* aux_store; the SupervisorBuilder instance attributes and the locals of  *)
(* build() are the remaining variables.  One tick is the sequence          *)
(*   CreateBase, ProcessParentTasks, LoadTasks, LoadComputers,             *)
(*   ProcessTask* (SendRank* CommitParent)?, WriteAuxiliary                *)
(* and worker processes act between any two of these steps.               *)
(*                                                                         *)
(* Names (computer names, docker names, queue names, addresses) are        *)
(* sequences of tokens, the token "_" being the underscore, so that the    *)
(* f-string that builds a queue name and the split('_') that takes it      *)
(* apart again are both computed.  Memory is counted in tenths of a unit.  *)
(***************************************************************************)
EXTENDS Integers, Sequences, FiniteSets, TLC

VARIABLES
    tasks,          \* task table: sequence of rows, the id is the position
    deps,           \* task_dependence table: set of <<task_id, depend_id>>
    celery,         \* work-queue: sequence of <<task id, queue>> submissions
    revoked,        \* celery ids cancelled through the work-queue
    aux_store,      \* the persisted Auxiliary row named 'supervisor'
    pc,             \* position of build()
    queues,         \* self.queues
    not_ran_tasks,  \* self.not_ran_tasks (task ids)
    dep_status,     \* self.dep_status
    computers,      \* self.computers
    auxiliary,      \* self.auxiliary
    idx,            \* position of the loop of process_tasks (1-based)
    task,           \* the task process_task is working on (0: none yet)
    to_send,        \* local to_send of process_task
    rank,           \* local rank of process_task
    master_port,    \* local master_port of process_task
    fails,          \* number of work-queue submissions that raised so far
    alive,          \* docker rows whose last_activity is within the window
    logged,         \* the exception build() logged in the current tick, if any
    snap_deps,      \* history: true dependency statuses when load_tasks ran
    created,        \* history: service tasks created by the current process_task
    outcome         \* history: how the current loop iteration of process_tasks ended

vars == <<tasks, deps, celery, revoked, aux_store, pc, queues, not_ran_tasks,
          dep_status, computers, auxiliary, idx, task, to_send, rank,
          master_port, fails, alive, logged, snap_deps, created, outcome>>

-----------------------------------------------------------------------------
(* Bounds of the model *)

NumUserTasks == 2
MaxFailures == 1
MaxDeps == 1

-----------------------------------------------------------------------------
(* TaskStatus (mlcomp.db.enums), an ordered enumeration *)

NotRan == 0
Queued == 1
InProgress == 2
Failed == 3
Stopped == 4
Skipped == 5
Success == 6

TaskStatus == {NotRan, Queued, InProgress, Failed, Stopped, Skipped, Success}

(* None for an integer column, a name column and a port *)
None == -1
NoName == <<>>

(* Column defaults of a Task row that create_service_task does not set *)
DefaultCpu == 1
DefaultMemory == 1
DefaultGpu == 0

-----------------------------------------------------------------------------
(* Names and the registry (computer and docker tables) *)

A == <<"A">>
B == <<"B">>
default == <<"default">>
localhost == <<"localhost">>

(* a computer name that no row of the computer table carries *)
Unregistered == <<"C">>

ComputerOrder == <<A, B>>
ComputerNames == {A, B}

(* computer_provider.computers(): name -> total capacity, memory in tenths *)
ComputerTable ==
    [c \in ComputerNames |->
        IF c = A THEN [cpu |-> 8, memory |-> 160, gpu |-> 2, ip |-> <<"10.0.0.1">>]
                 ELSE [cpu |-> 4, memory |-> 80, gpu |-> 1, ip |-> <<"10.0.0.2">>]]

(* docker table: one worker image per computer, with its port range "lo-hi" *)
DockerTable ==
    { [computer |-> A, name |-> default, ports |-> <<29500, 29500>>],
      [computer |-> B, name |-> default, ports |-> <<29500, 29501>>] }

-----------------------------------------------------------------------------
(* Strings *)

Range(s) == { s[i] : i \in 1..Len(s) }

(* f'{a}_{b}' *)
QueueName(computer, docker) == computer \o <<"_">> \o docker

(* str.split(sep): the segments of s between the occurrences of sep *)
RECURSIVE Split(_, _)
Split(s, sep) ==
    IF sep \notin Range(s) THEN <<s>>
    ELSE LET i == CHOOSE k \in 1..Len(s) :
                      s[k] = sep /\ \A j \in 1..(k - 1) : s[j] # sep
         IN  <<SubSeq(s, 1, i - 1)>> \o Split(SubSeq(s, i + 1, Len(s)), sep)

(* a variant that counts the positions from 1 *)
IndexOfFromOne(list, x) ==
    CHOOSE k \in 1..Len(list) :
        list[k] = x /\ \A j \in 1..(k - 1) : list[j] # x

(* list.index(x), 0-based *)
IndexOf(list, x) ==
    (CHOOSE k \in 1..Len(list) :
        list[k] = x /\ \A j \in 1..(k - 1) : list[j] # x) - 1

(* task.dag_rel.docker_img or "default" *)
DockerImg(t) == IF t.docker_img = NoName THEN default ELSE t.docker_img

-----------------------------------------------------------------------------
(* Task rows *)

NoDistrInfo ==
    [master_addr |-> NoName, rank |-> None, local_rank |-> None,
     master_port |-> None, world_size |-> None]

(* A row as the submission collaborator creates it *)
UserTask(p) ==
    [type |-> "user", status |-> NotRan, computer |-> p.computer,
     cpu |-> p.cpu, memory |-> p.memory, gpu |-> p.gpu,
     computer_assigned |-> NoName, gpu_assigned |-> None, celery_id |-> None,
     parent |-> None, debug |-> p.debug, has_dag |-> p.has_dag,
     docker_img |-> NoName, distr_info |-> NoDistrInfo]

(* The requests a submitted task may carry *)
TaskProfiles ==
    { [gpu |-> 0, cpu |-> 2, memory |-> 40, computer |-> NoName, debug |-> FALSE, has_dag |-> TRUE],
      [gpu |-> 0, cpu |-> 5, memory |-> 40, computer |-> NoName, debug |-> FALSE, has_dag |-> TRUE],
      [gpu |-> 0, cpu |-> 2, memory |-> 40, computer |-> B, debug |-> FALSE, has_dag |-> TRUE],
      [gpu |-> 0, cpu |-> 2, memory |-> 40, computer |-> Unregistered, debug |-> FALSE, has_dag |-> TRUE],
      [gpu |-> 1, cpu |-> 2, memory |-> 40, computer |-> NoName, debug |-> FALSE, has_dag |-> TRUE],
      [gpu |-> 2, cpu |-> 2, memory |-> 40, computer |-> NoName, debug |-> FALSE, has_dag |-> TRUE],
      [gpu |-> 0, cpu |-> 2, memory |-> 40, computer |-> NoName, debug |-> TRUE, has_dag |-> TRUE],
      [gpu |-> 0, cpu |-> 2, memory |-> 40, computer |-> NoName, debug |-> FALSE, has_dag |-> FALSE] }

TaskIds == 1..Len(tasks)

(* provider.by_status(statuses...), in id order *)
RECURSIVE IdsFrom(_, _)
IdsFrom(i, statuses) ==
    IF i > Len(tasks) THEN <<>>
    ELSE (IF tasks[i].status \in statuses THEN <<i>> ELSE <<>>)
         \o IdsFrom(i + 1, statuses)

(* a variant without the filter on the status *)
by_status_unfiltered(statuses) == IdsFrom(1, TaskStatus)

by_status(statuses) == IdsFrom(1, statuses)

(* provider.children(id) *)
children(id) == { c \in TaskIds : tasks[c].parent = id }

(* provider.change_status(task, status); timestamps are not modelled *)
change_status(ts, id, status) == [ts EXCEPT ![id].status = status]

-----------------------------------------------------------------------------
(* TaskProvider.dependency_status *)

(* the rows of the join of TaskDependence with Task for the given task ids *)
DependencyItems(ids) ==
    { e \in deps : e[1] \in ids /\ e[2] \in TaskIds }

(* mutant: a loop body that drops the row and does not raise *)
DependencyStatusIgnoresRows(ids) == FALSE

(* res[item.task_id].append(task.status) on a set: raises on the first row *)
DependencyStatusRaises(ids) == DependencyItems(ids) # {}

(* the value returned when no row is visited *)
DependencyStatus(ids) == [t \in ids |-> {}]

(* the statuses of the tasks a task depends on, as the store holds them *)
TrueDepStatus(t) == { tasks[e[2]].status : e \in { d \in deps : d[1] = t /\ d[2] \in TaskIds } }

-----------------------------------------------------------------------------
(* SupervisorBuilder.create_base: the queues of the dockers seen alive *)

AliveQueues(alive_dockers) ==
    { QueueName(d.computer, d.name) : d \in alive_dockers }

-----------------------------------------------------------------------------
(* SupervisorBuilder.load_computers *)

(* the first loop: the registry row turned into the snapshot record *)
FreshComputer(name) ==
    [name |-> name,
     ip |-> ComputerTable[name].ip,
     cpu |-> ComputerTable[name].cpu,
     memory |-> ComputerTable[name].memory,
     gpu |-> [i \in 1..ComputerTable[name].gpu |-> 0],
     ports |-> {},
     cpu_total |-> ComputerTable[name].cpu,
     memory_total |-> ComputerTable[name].memory,
     gpu_total |-> ComputerTable[name].gpu]

(* a variant of the loop body that leaves the memory as it is *)
AccountTaskCpuOnly(cs, id) ==
    LET t == tasks[id]
        assigned == t.computer_assigned
        c == cs[assigned]
    IN  IF assigned = NoName THEN cs
        ELSE [cs EXCEPT ![assigned] =
                [c EXCEPT
                    !.cpu = c.cpu - t.cpu,
                    !.gpu = IF t.gpu_assigned # None
                            THEN [c.gpu EXCEPT ![t.gpu_assigned + 1] = id]
                            ELSE c.gpu,
                    !.ports = IF t.distr_info # NoDistrInfo /\ t.distr_info.rank = 0
                              THEN c.ports \cup {t.distr_info.master_port}
                              ELSE c.ports]]

(* the body of the second loop for one Queued / InProgress task *)
AccountTask(cs, id) ==
    LET t == tasks[id]
        assigned == t.computer_assigned
        c == cs[assigned]
    IN  IF assigned = NoName THEN cs
        ELSE [cs EXCEPT ![assigned] =
                [c EXCEPT
                    !.cpu = c.cpu - t.cpu,
                    !.gpu = IF t.gpu_assigned # None
                            THEN [c.gpu EXCEPT ![t.gpu_assigned + 1] = id]
                            ELSE c.gpu,
                    !.memory = c.memory - t.memory,
                    !.ports = IF t.distr_info # NoDistrInfo /\ t.distr_info.rank = 0
                              THEN c.ports \cup {t.distr_info.master_port}
                              ELSE c.ports]]

RECURSIVE AccountFrom(_, _, _)
AccountFrom(cs, ids, i) ==
    IF i > Len(ids) THEN cs
    ELSE AccountFrom(AccountTask(cs, ids[i]), ids, i + 1)

(* a variant that goes on from the records of the tick before *)
LoadedComputersCarried ==
    AccountFrom(IF computers = <<>>
                THEN [name \in ComputerNames |-> FreshComputer(name)]
                ELSE computers,
                by_status({Queued, InProgress}), 1)

LoadedComputers ==
    AccountFrom([name \in ComputerNames |-> FreshComputer(name)],
                by_status({Queued, InProgress}), 1)

-----------------------------------------------------------------------------
(* SupervisorBuilder.process_task: candidate computers *)

NoError == ""

(* a variant that does not look at the alive queues *)
valid_computer_any_queue(c, t) ==
    IF t.computer # NoName /\ t.computer # c.name
        THEN "name set in the config!= name of this computer"
    ELSE IF t.cpu > c.cpu
        THEN "task cpu > computer free cpu"
    ELSE IF t.memory > c.memory
        THEN "task cpu > computer free memory"
    ELSE IF t.gpu > 0 /\ ~(\E i \in 1..Len(c.gpu) : c.gpu[i] = 0)
        THEN "task requires gpu, but there is not any free"
    ELSE ""

(* valid_computer(c): the reason the computer is rejected, or None *)
valid_computer(c, t) ==
    IF t.computer # NoName /\ t.computer # c.name
        THEN "name set in the config!= name of this computer"
    ELSE IF t.cpu > c.cpu
        THEN "task cpu > computer free cpu"
    ELSE IF t.memory > c.memory
        THEN "task cpu > computer free memory"
    ELSE IF QueueName(c.name, DockerImg(t)) \notin queues
        THEN "required queue not in queues"
    ELSE IF t.gpu > 0 /\ ~(\E i \in 1..Len(c.gpu) : c.gpu[i] = 0)
        THEN "task requires gpu, but there is not any free"
    ELSE NoError

(* a variant that lists the candidates in the reverse order *)
ValidComputersReversed(t) ==
    SelectSeq(<<ComputerOrder[2], ComputerOrder[1]>>,
              LAMBDA n : valid_computer(computers[n], t) = NoError)

(* the list computers of process_task, in the order of self.computers *)
ValidComputers(t) ==
    SelectSeq(ComputerOrder, LAMBDA n : valid_computer(computers[n], t) = NoError)

(* auxiliary['computers'] of the task's trace entry *)
ComputerErrors(t) ==
    [k \in 1..Len(ComputerOrder) |->
        [name |-> ComputerOrder[k],
         error |-> valid_computer(computers[ComputerOrder[k]], t)]]

(* sum(g == 0 for g in c['gpu']) *)
FreeSlots(c) == Cardinality({ i \in 1..Len(c.gpu) : c.gpu[i] = 0 })

RECURSIVE SumFree(_, _)
SumFree(names, i) ==
    IF i > Len(names) THEN 0
    ELSE FreeSlots(computers[names[i]]) + SumFree(names, i + 1)

(* a variant that counts every slot of the candidates, free or taken *)
RECURSIVE SumSlots(_, _)
SumSlots(names, i) ==
    IF i > Len(names) THEN 0
    ELSE Len(computers[names[i]].gpu) + SumSlots(names, i + 1)

free_gpu_counts_taken(t) == SumSlots(ValidComputers(t), 1)

free_gpu(t) == SumFree(ValidComputers(t), 1)

-----------------------------------------------------------------------------
(* SupervisorBuilder.process_task: collecting the GPU slots (lines 184-203) *)

(* the inner loop over computer['gpu']: slot is the position of the loop,   *)
(* index the local counter, which a taken slot does not advance             *)
RECURSIVE TakeSlots(_, _, _, _, _, _)
TakeSlots(c, queue, slot, index, sent, need) ==
    IF slot > Len(c.gpu) THEN sent
    ELSE IF c.gpu[slot] # 0
        THEN TakeSlots(c, queue, slot + 1, index, sent, need)
    ELSE LET more == Append(sent, [computer |-> c.name, queue |-> queue,
                                   gpu_assigned |-> index])
         IN  IF Len(more) >= need THEN more
             ELSE TakeSlots(c, queue, slot + 1, index + 1, more, need)

(* the outer loop over the candidate computers, for task.gpu > 0 *)
RECURSIVE Collect(_, _, _, _)
Collect(t, names, i, sent) ==
    IF i > Len(names) THEN sent
    ELSE LET c == computers[names[i]]
             more == TakeSlots(c, QueueName(c.name, DockerImg(t)), 1, 0, sent, t.gpu)
         IN  IF Len(more) >= t.gpu THEN more
             ELSE Collect(t, names, i + 1, more)

(* computer_gpu_taken[name]: the indices collected on one computer, in order *)
computer_gpu_taken(sent, name) ==
    LET mine == SelectSeq(sent, LAMBDA e : e.computer = name)
    IN  [k \in 1..Len(mine) |-> mine[k].gpu_assigned]

-----------------------------------------------------------------------------
(* SupervisorBuilder.find_port *)

(* docker_provider.get(computer, name): the matching rows (none: None) *)
DockerGet(computer, name) ==
    { d \in DockerTable : d.computer = computer /\ d.name = name }

(* a variant whose range goes one port beyond the declared end *)
PortRangePastEnd(computer, name) ==
    LET d == CHOOSE d \in DockerGet(computer, name) : TRUE
    IN  d.ports[1]..(d.ports[2] + 1)

(* range(ports[0], ports[1] + 1) of the docker's "lo-hi" *)
PortRange(computer, name) ==
    LET d == CHOOSE d \in DockerGet(computer, name) : TRUE
    IN  d.ports[1]..d.ports[2]

(* docker is None (AttributeError) or every port of the range is taken *)
find_port_raises(c, docker_name) ==
    \/ DockerGet(c.name, docker_name) = {}
    \/ \A p \in PortRange(c.name, docker_name) : p \in c.ports

find_port(c, docker_name) ==
    CHOOSE p \in PortRange(c.name, docker_name) :
        /\ p \notin c.ports
        /\ \A q \in PortRange(c.name, docker_name) : q \notin c.ports => p <= q

(* to_send[0][1].split('_')[1] *)
MasterDocker(sent) == Split(sent[1].queue, "_")[2]

-----------------------------------------------------------------------------
(* SupervisorBuilder.create_service_task and process_to_celery *)

(* the row create_service_task adds; cpu, memory and gpu are not passed on *)
ServiceTask(parent_id, gpu_assigned, distr_info) ==
    LET t == tasks[parent_id]
    IN  [type |-> "service", status |-> NotRan, computer |-> t.computer,
         cpu |-> DefaultCpu, memory |-> DefaultMemory, gpu |-> DefaultGpu,
         computer_assigned |-> NoName, gpu_assigned |-> gpu_assigned,
         celery_id |-> None, parent |-> parent_id, debug |-> FALSE,
         has_dag |-> t.has_dag, docker_img |-> t.docker_img,
         distr_info |-> distr_info]

create_service_task(ts, parent_id, gpu_assigned, distr_info) ==
    Append(ts, ServiceTask(parent_id, gpu_assigned, distr_info))

(* a variant that persists the assigned computer in a later update *)
SentTaskWithoutComputer(t, computer) ==
    [t EXCEPT !.status = Queued,
              !.celery_id = Len(celery) + 1]

(* the task row after process_to_celery; r.id is the submission's position *)
SentTask(t, computer) ==
    [t EXCEPT !.status = Queued,
              !.computer_assigned = computer,
              !.celery_id = Len(celery) + 1]

(* the snapshot record of the computer after process_to_celery *)
SentComputer(c, t, id) ==
    IF t.gpu_assigned # None
    THEN [c EXCEPT !.gpu = [c.gpu EXCEPT ![t.gpu_assigned + 1] = id],
                   !.cpu = c.cpu - t.cpu,
                   !.memory = c.memory - t.memory]
    ELSE c

(* a variant that numbers the ranks from 1 *)
DistrInfoRankFromOne(sent, k, port, world_size) ==
    [master_addr |-> IF sent[k].computer = sent[1].computer THEN localhost
                     ELSE computers[sent[1].computer].ip,
     rank |-> k,
     local_rank |-> IndexOf(computer_gpu_taken(sent, sent[k].computer),
                            sent[k].gpu_assigned),
     master_port |-> port,
     world_size |-> world_size]

(* a variant that gives every rank the address "localhost" *)
DistrInfoAlwaysLocalhost(sent, k, port, world_size) ==
    [master_addr |-> localhost,
     rank |-> k - 1,
     local_rank |-> IndexOf(computer_gpu_taken(sent, sent[k].computer),
                            sent[k].gpu_assigned),
     master_port |-> port,
     world_size |-> world_size]

(* the rendezvous payload of one collected tuple (lines 217-230) *)
DistrInfo(sent, k, port, world_size) ==
    LET e == sent[k]
        main_cmp == computers[sent[1].computer]
    IN  [master_addr |-> IF e.computer = main_cmp.name THEN localhost
                         ELSE main_cmp.ip,
         rank |-> k - 1,
         local_rank |-> IndexOf(computer_gpu_taken(sent, e.computer), e.gpu_assigned),
         master_port |-> port,
         world_size |-> world_size]

-----------------------------------------------------------------------------
(* SupervisorBuilder.process_tasks: the dependency gate (lines 250-264) *)

Gate(id) ==
    IF ~tasks[id].has_dag THEN "no dag_rel"
    ELSE IF Stopped \in dep_status[id] \/ Failed \in dep_status[id]
        THEN "stopped or failed in dep_status"
    ELSE IF dep_status[id] # {} /\ dep_status[id] # {Success}
        THEN "not all dep tasks are finished"
    ELSE "run"

(* one entry of auxiliary['process_tasks'] *)
AuxEntry(id, not_valid, errors, sent) ==
    [id |-> id, not_valid |-> not_valid, computers |-> errors, to_send |-> sent]

EmptyAux == [not_ran_tasks |-> <<>>, process_tasks |-> <<>>, parent_tasks_stats |-> {}]

-----------------------------------------------------------------------------
(* SupervisorBuilder.process_parent_tasks and the cascade *)

(* parent_tasks_stats: the Queued / InProgress tasks that have a child *)
parent_tasks_stats ==
    { p \in TaskIds : tasks[p].status \in {Queued, InProgress} /\ children(p) # {} }

(* a variant that looks for InProgress before Queued *)
AggregatedStatusInProgressFirst(p) ==
    LET statuses == { tasks[c].status : c \in children(p) }
    IN  IF Failed \in statuses THEN Failed
        ELSE IF Skipped \in statuses THEN Skipped
        ELSE IF InProgress \in statuses THEN InProgress
        ELSE IF Queued \in statuses THEN Queued
        ELSE IF Success \in statuses THEN Success
        ELSE tasks[p].status

(* the precedence of lines 279-289 over the children's statuses *)
AggregatedStatus(p) ==
    LET statuses == { tasks[c].status : c \in children(p) }
    IN  IF Failed \in statuses THEN Failed
        ELSE IF Skipped \in statuses THEN Skipped
        ELSE IF Queued \in statuses THEN Queued
        ELSE IF InProgress \in statuses THEN InProgress
        ELSE IF Success \in statuses THEN Success
        ELSE tasks[p].status

(* a variant whose test is status > Failed *)
StoppingParentsAboveFailed ==
    { p \in parent_tasks_stats :
        AggregatedStatus(p) # tasks[p].status /\ AggregatedStatus(p) > Failed }

(* the parents whose change of status stops their children (line 300) *)
StoppingParents ==
    { p \in parent_tasks_stats :
        AggregatedStatus(p) # tasks[p].status /\ AggregatedStatus(p) >= Failed }

(* worker.tasks.stop(child, dag): a child that is not finished is cancelled *)
(* and marked Stopped, a finished one is left alone                         *)
StopApplies(t) == t.status \in {NotRan, Queued, InProgress}

(* _stop_child_tasks over every stopping parent *)
StoppedChildren ==
    { c \in TaskIds : tasks[c].parent \in StoppingParents /\ StopApplies(tasks[c]) }

-----------------------------------------------------------------------------
(* The initial store: the submitted tasks, nothing scheduled yet *)

AliveChoices == { DockerTable, { d \in DockerTable : d.computer = A } }

Init ==
    /\ tasks \in [1..NumUserTasks -> { UserTask(p) : p \in TaskProfiles }]
    /\ deps = {}
    /\ celery = <<>>
    /\ revoked = {}
    /\ aux_store = <<>>
    /\ alive \in AliveChoices
    /\ pc = "idle"
    /\ queues = {}
    /\ not_ran_tasks = <<>>
    /\ dep_status = <<>>
    /\ computers = <<>>
    /\ auxiliary = EmptyAux
    /\ idx = 1
    /\ task = 0
    /\ to_send = <<>>
    /\ rank = 0
    /\ master_port = None
    /\ fails = 0
    /\ logged = ""
    /\ snap_deps = <<>>
    /\ created = {}
    /\ outcome = ""

store == <<tasks, celery, revoked, aux_store>>
locals == <<task, to_send, rank, master_port, created, outcome>>

-----------------------------------------------------------------------------
(* build(), step by step *)

(* a variant of build() without the clause except Exception *)
build_except_deleted_only(error) ==
    IF error = "ObjectDeletedError" THEN [pc |-> "idle", logged |-> ""]
    ELSE [pc |-> "raised out of build", logged |-> ""]

(* lines 344-351: where build() goes on an exception of a step, and what   *)
(* it logs: ObjectDeletedError is passed over, any other Exception logged  *)
build_except(error) ==
    IF error = "ObjectDeletedError" THEN [pc |-> "idle", logged |-> ""]
    ELSE [pc |-> "idle", logged |-> error]

(* lines 330-332: a new auxiliary, then create_base *)
CreateBase ==
    /\ pc = "idle"
    /\ auxiliary' = EmptyAux
    /\ queues' = AliveQueues(alive)
    /\ logged' = ""
    /\ pc' = "process_parent_tasks"
    /\ task' = 0
    /\ created' = {}
    /\ outcome' = ""
    /\ UNCHANGED <<store, deps, alive, not_ran_tasks, dep_status, computers,
                   idx, fails, snap_deps, to_send, rank, master_port>>

(* line 334: process_parent_tasks *)
ProcessParentTasks ==
    /\ pc = "process_parent_tasks"
    /\ tasks' = [i \in TaskIds |->
                    IF i \in parent_tasks_stats
                        THEN [tasks[i] EXCEPT !.status = AggregatedStatus(i)]
                    ELSE IF i \in StoppedChildren
                        THEN [tasks[i] EXCEPT !.status = Stopped]
                    ELSE tasks[i]]
    /\ revoked' = revoked \cup
                    { tasks[c].celery_id : c \in { x \in StoppedChildren :
                                                     tasks[x].celery_id # None } }
    /\ auxiliary' = [auxiliary EXCEPT !.parent_tasks_stats = parent_tasks_stats]
    /\ pc' = "load_tasks"
    /\ UNCHANGED <<deps, celery, aux_store, alive, queues, not_ran_tasks,
                   dep_status, computers, idx, fails, logged, snap_deps, locals>>

(* line 336: load_tasks; dependency_status may raise, which ends the tick *)
LoadTasks ==
    /\ pc = "load_tasks"
    /\ LET listed == by_status({NotRan})
           kept == SelectSeq(listed, LAMBDA i : ~tasks[i].debug)
       IN  /\ not_ran_tasks' = kept
           /\ snap_deps' = [i \in Range(kept) |-> TrueDepStatus(i)]
           /\ IF DependencyStatusRaises(Range(kept))
              THEN /\ logged' = build_except("AttributeError").logged
                   /\ pc' = build_except("AttributeError").pc
                   /\ UNCHANGED <<dep_status, auxiliary>>
              ELSE /\ dep_status' = DependencyStatus(Range(kept))
                   /\ auxiliary' =
                        [auxiliary EXCEPT !.not_ran_tasks =
                            [k \in 1..Len(listed) |->
                                [id |-> listed[k],
                                 dep_status |->
                                    IF listed[k] \in Range(kept)
                                    THEN DependencyStatus(Range(kept))[listed[k]]
                                    ELSE {}]]]
                   /\ logged' = logged
                   /\ pc' = "load_computers"
    /\ UNCHANGED <<store, deps, alive, queues, computers, idx, fails, locals>>

(* line 338: load_computers *)
LoadComputers ==
    /\ pc = "load_computers"
    /\ computers' = LoadedComputers
    /\ idx' = 1
    /\ pc' = "process_tasks"
    /\ UNCHANGED <<store, deps, alive, queues, not_ran_tasks, dep_status,
                   auxiliary, fails, logged, snap_deps, locals>>

(* the loop of process_tasks is at a task that has yet to be looked at *)
AtTask == pc = "process_tasks" /\ idx <= Len(not_ran_tasks)

(* the iteration reaches process_to_celery for a task that asks for no GPU *)
SendsDirectly(id) ==
    /\ Gate(id) = "run"
    /\ tasks[id].gpu <= free_gpu(tasks[id])
    /\ tasks[id].gpu <= 0
    /\ ValidComputers(tasks[id]) # <<>>

(* line 340: one iteration of the loop of process_tasks, with process_task *)
(* up to the rendezvous port (lines 246-215)                               *)
ProcessTask ==
    /\ AtTask
    /\ LET id == not_ran_tasks[idx]
           t == tasks[id]
           valid == ValidComputers(t)
           errors == ComputerErrors(t)
           sent == Collect(t, valid, 1, <<>>)
           note(not_valid, es, snt) ==
               [auxiliary EXCEPT !.process_tasks =
                    Append(@, AuxEntry(id, not_valid, es, snt))]
           docker_name == MasterDocker(sent)
           main_cmp == computers[sent[1].computer]
       IN  /\ task' = id
           /\ created' = {}
           /\ rank' = 0
           /\ IF Gate(id) = "no dag_rel" THEN
                 /\ auxiliary' = note("no dag_rel", <<>>, <<>>)
                 /\ outcome' = "no dag_rel"
                 /\ idx' = idx + 1
                 /\ UNCHANGED <<tasks, celery, computers, to_send, master_port,
                                pc, logged>>
              ELSE IF Gate(id) = "stopped or failed in dep_status" THEN
                 /\ auxiliary' = note("stopped or failed in dep_status", <<>>, <<>>)
                 /\ tasks' = change_status(tasks, id, Skipped)
                 /\ outcome' = "skipped"
                 /\ idx' = idx + 1
                 /\ UNCHANGED <<celery, computers, to_send, master_port, pc, logged>>
              ELSE IF Gate(id) = "not all dep tasks are finished" THEN
                 /\ auxiliary' = note("not all dep tasks are finished", <<>>, <<>>)
                 /\ outcome' = "blocked"
                 /\ idx' = idx + 1
                 /\ UNCHANGED <<tasks, celery, computers, to_send, master_port,
                                pc, logged>>
              ELSE IF t.gpu > free_gpu(t) THEN
                 /\ auxiliary' = note("gpu required by the task, but there are only free gpus",
                                      errors, <<>>)
                 /\ outcome' = "gpu shortfall"
                 /\ idx' = idx + 1
                 /\ UNCHANGED <<tasks, celery, computers, to_send, master_port,
                                pc, logged>>
              ELSE IF t.gpu > 0 THEN
                 /\ auxiliary' = note("", errors, sent)
                 /\ IF Len(sent) > 0 /\ find_port_raises(main_cmp, docker_name) THEN
                       /\ logged' = build_except("find_port").logged
                       /\ outcome' = "raised"
                       /\ pc' = build_except("find_port").pc
                       /\ UNCHANGED <<to_send, master_port, idx>>
                    ELSE IF Len(sent) > 0 THEN
                       /\ to_send' = sent
                       /\ master_port' = find_port(main_cmp, docker_name)
                       /\ outcome' = "sending"
                       /\ pc' = "send"
                       /\ UNCHANGED <<logged, idx>>
                    ELSE
                       /\ outcome' = "nothing to send"
                       /\ idx' = idx + 1
                       /\ UNCHANGED <<to_send, master_port, logged, pc>>
                 /\ UNCHANGED <<tasks, celery, computers>>
              ELSE IF valid # <<>> THEN
                 /\ auxiliary' = note("", errors, <<>>)
                 /\ celery' = Append(celery, <<id, QueueName(valid[1], DockerImg(t))>>)
                 /\ tasks' = [tasks EXCEPT ![id] = SentTask(t, valid[1])]
                 /\ computers' = [computers EXCEPT ![valid[1]] =
                                    SentComputer(@, SentTask(t, valid[1]), id)]
                 /\ outcome' = "sent"
                 /\ idx' = idx + 1
                 /\ UNCHANGED <<to_send, master_port, pc, logged>>
              ELSE
                 /\ auxiliary' = note("", errors, <<>>)
                 /\ outcome' = "no computer"
                 /\ idx' = idx + 1
                 /\ UNCHANGED <<tasks, celery, computers, to_send, master_port,
                                pc, logged>>
    /\ UNCHANGED <<deps, revoked, aux_store, alive, queues, not_ran_tasks,
                   dep_status, fails, snap_deps>>

(* a variant of the loop that ends after its first turn *)
LoopDoneAfterFirst(k, sent) == k >= 1

(* the loop over to_send has made its last turn *)
LoopDone(k, sent) == k >= Len(sent)

(* lines 217-237: one turn of the loop over to_send *)
SendRank ==
    /\ pc = "send"
    /\ LET k == rank + 1
           e == to_send[k]
           id == Len(tasks) + 1
           info == DistrInfo(to_send, k, master_port, tasks[task].gpu)
           added == create_service_task(tasks, task, e.gpu_assigned, info)
           sent_task == SentTask(added[id], e.computer)
       IN  /\ tasks' = [added EXCEPT ![id] = sent_task]
           /\ celery' = Append(celery, <<id, e.queue>>)
           /\ computers' = [computers EXCEPT ![e.computer] =
                                SentComputer(@, sent_task, id)]
           /\ created' = created \cup {id}
           /\ rank' = k
           /\ pc' = IF LoopDone(k, to_send) THEN "commit_parent" ELSE "send"
    /\ UNCHANGED <<deps, revoked, aux_store, alive, queues, not_ran_tasks,
                   dep_status, auxiliary, idx, task, to_send, master_port,
                   fails, logged, snap_deps, outcome>>

(* lines 239-241: the logical task becomes Queued *)
CommitParent ==
    /\ pc = "commit_parent"
    /\ tasks' = [tasks EXCEPT ![task].status = Queued]
    /\ outcome' = "sent"
    /\ to_send' = <<>>
    /\ rank' = 0
    /\ master_port' = None
    /\ idx' = idx + 1
    /\ pc' = "process_tasks"
    /\ UNCHANGED <<deps, celery, revoked, aux_store, alive, queues,
                   not_ran_tasks, dep_status, computers, auxiliary, task,
                   fails, logged, snap_deps, created>>

(* execute.apply_async raises (line 101): build() logs it, the tick ends. *)
(* In the loop over to_send the service task has already been added.      *)
ApplyAsyncRaises ==
    /\ fails < MaxFailures
    /\ fails' = fails + 1
    /\ logged' = build_except("apply_async").logged
    /\ outcome' = "raised"
    /\ pc' = build_except("apply_async").pc
    /\ \/ /\ AtTask
          /\ SendsDirectly(not_ran_tasks[idx])
          /\ task' = not_ran_tasks[idx]
          /\ auxiliary' = [auxiliary EXCEPT !.process_tasks =
                Append(@, AuxEntry(not_ran_tasks[idx], "",
                                   ComputerErrors(tasks[not_ran_tasks[idx]]), <<>>))]
          /\ created' = {}
          /\ UNCHANGED tasks
       \/ /\ pc = "send"
          /\ tasks' = create_service_task(tasks, task, to_send[rank + 1].gpu_assigned,
                          DistrInfo(to_send, rank + 1, master_port, tasks[task].gpu))
          /\ created' = created \cup {Len(tasks) + 1}
          /\ UNCHANGED <<task, auxiliary>>
    /\ to_send' = <<>>
    /\ rank' = 0
    /\ master_port' = None
    /\ UNCHANGED <<deps, celery, revoked, aux_store, alive, queues,
                   not_ran_tasks, dep_status, computers, idx, snap_deps>>

(* a variant that stores the record without the placement trace *)
SnapshotRecordWithoutTrace ==
    [name |-> "supervisor",
     queues |-> queues,
     not_ran_tasks |-> auxiliary.not_ran_tasks,
     computers |-> computers,
     process_tasks |-> <<>>,
     parent_tasks_stats |-> auxiliary.parent_tasks_stats]

(* Auxiliary(name='supervisor', data=yaml_dump(self.auxiliary)); the time  *)
(* and the duration are not modelled                                       *)
SnapshotRecord ==
    [name |-> "supervisor",
     queues |-> queues,
     not_ran_tasks |-> auxiliary.not_ran_tasks,
     computers |-> computers,
     process_tasks |-> auxiliary.process_tasks,
     parent_tasks_stats |-> auxiliary.parent_tasks_stats]

(* line 342: write_auxiliary, once the loop of process_tasks is over *)
WriteAuxiliary ==
    /\ pc = "process_tasks"
    /\ idx > Len(not_ran_tasks)
    /\ aux_store' = SnapshotRecord
    /\ pc' = "idle"
    /\ UNCHANGED <<tasks, deps, celery, revoked, alive, queues, not_ran_tasks,
                   dep_status, computers, auxiliary, idx, fails, logged,
                   snap_deps, locals>>

-----------------------------------------------------------------------------
(* The collaborators *)

(* a worker takes a submitted task that was not cancelled *)
WorkerStart(i) ==
    /\ tasks[i].status = Queued
    /\ tasks[i].celery_id # None
    /\ tasks[i].celery_id \notin revoked
    /\ tasks' = change_status(tasks, i, InProgress)
    /\ UNCHANGED <<deps, celery, revoked, aux_store, alive, pc, queues,
                   not_ran_tasks, dep_status, computers, auxiliary, idx, fails,
                   logged, snap_deps, locals>>

(* a worker reports the end of the task it runs *)
WorkerFinish(i, status) ==
    /\ tasks[i].status = InProgress
    /\ tasks[i].celery_id # None
    /\ tasks' = change_status(tasks, i, status)
    /\ UNCHANGED <<deps, celery, revoked, aux_store, alive, pc, queues,
                   not_ran_tasks, dep_status, computers, auxiliary, idx, fails,
                   logged, snap_deps, locals>>

(* TaskProvider.add_dependency, called for a task that has not run yet *)
add_dependency(task_id, depend_id) ==
    /\ Cardinality(deps) < MaxDeps
    /\ tasks[task_id].status = NotRan
    /\ tasks[task_id].type = "user"
    /\ depend_id < task_id
    /\ deps' = deps \cup {<<task_id, depend_id>>}
    /\ UNCHANGED <<store, alive, pc, queues, not_ran_tasks, dep_status,
                   computers, auxiliary, idx, fails, logged, snap_deps, locals>>

Next ==
    \/ CreateBase
    \/ ProcessParentTasks
    \/ LoadTasks
    \/ LoadComputers
    \/ ProcessTask
    \/ SendRank
    \/ CommitParent
    \/ WriteAuxiliary
    \/ \E i \in TaskIds : WorkerStart(i)
    \/ \E i \in TaskIds : \E status \in {Success, Failed} : WorkerFinish(i, status)
    \/ \E i \in TaskIds : \E d \in TaskIds : add_dependency(i, d)

(* Every collaborator call succeeds *)
Spec == Init /\ [][Next]_vars

(* The work-queue may refuse a submission; the submitted tasks are          *)
(* schedulable and unpinned, and at most one of them asks for GPUs          *)
InitFail ==
    /\ Init
    /\ alive = DockerTable
    /\ \A i \in TaskIds :
          tasks[i].has_dag /\ ~tasks[i].debug /\ tasks[i].computer = NoName
    /\ \A i, j \in TaskIds : i # j => tasks[i].gpu = 0 \/ tasks[j].gpu = 0

(* the exceptions a collaborator of a step may raise *)
StepErrors == {"ObjectDeletedError", "OperationalError"}

(* a collaborator raises in create_base, process_parent_tasks, load_tasks, *)
(* load_computers or write_auxiliary before the step has written anything: *)
(* build() handles the exception and returns                               *)
StepRaises(error) ==
    /\ fails < MaxFailures
    /\ fails' = fails + 1
    /\ \/ /\ pc = "idle"
          /\ auxiliary' = EmptyAux
          /\ task' = 0
          /\ created' = {}
          /\ outcome' = ""
       \/ /\ pc \in {"process_parent_tasks", "load_tasks", "load_computers"}
          /\ UNCHANGED <<auxiliary, task, created, outcome>>
       \/ /\ pc = "process_tasks"
          /\ idx > Len(not_ran_tasks)
          /\ UNCHANGED <<auxiliary, task, created, outcome>>
    /\ pc' = build_except(error).pc
    /\ logged' = build_except(error).logged
    /\ UNCHANGED <<store, deps, alive, queues, not_ran_tasks, dep_status,
                   computers, idx, snap_deps, to_send, rank, master_port>>

(* provider.update() raises (line 111) after execute.apply_async has     *)
(* returned (line 101): the job is in the work-queue, the row is as the   *)
(* store held it, build() logs the exception and the tick ends.           *)
UpdateRaises ==
    /\ fails < MaxFailures
    /\ fails' = fails + 1
    /\ logged' = build_except("update").logged
    /\ outcome' = "raised"
    /\ pc' = build_except("update").pc
    /\ \/ /\ AtTask
          /\ SendsDirectly(not_ran_tasks[idx])
          /\ LET id == not_ran_tasks[idx]
                 t == tasks[id]
                 first == ValidComputers(t)[1]
             IN  /\ task' = id
                 /\ celery' = Append(celery, <<id, QueueName(first, DockerImg(t))>>)
                 /\ auxiliary' = [auxiliary EXCEPT !.process_tasks =
                        Append(@, AuxEntry(id, "", ComputerErrors(t), <<>>))]
          /\ created' = {}
          /\ UNCHANGED <<tasks, computers>>
       \/ /\ pc = "send"
          /\ LET e == to_send[rank + 1]
                 id == Len(tasks) + 1
                 added == create_service_task(tasks, task, e.gpu_assigned,
                             DistrInfo(to_send, rank + 1, master_port, tasks[task].gpu))
             IN  /\ tasks' = added
                 /\ celery' = Append(celery, <<id, e.queue>>)
                 /\ computers' = [computers EXCEPT ![e.computer] =
                                     SentComputer(@, SentTask(added[id], e.computer), id)]
                 /\ created' = created \cup {id}
          /\ UNCHANGED <<task, auxiliary>>
    /\ to_send' = <<>>
    /\ rank' = 0
    /\ master_port' = None
    /\ UNCHANGED <<deps, revoked, aux_store, alive, queues, not_ran_tasks,
                   dep_status, idx, snap_deps>>

NextFail ==
    \/ Next
    \/ ApplyAsyncRaises
    \/ UpdateRaises
    \/ \E error \in StepErrors : StepRaises(error)

SpecFail == InitFail /\ [][NextFail]_vars

(* Repeated ticks. The supervisor is registered as a periodic job, so a    *)
(* tick that can take a step eventually takes it; workers and callers of   *)
(* the provider are under no such obligation.                              *)

(* TaskProvider.stop(id), called from outside for a task that is not       *)
(* finished                                                                *)
stop(id) ==
    /\ tasks[id].status \in {NotRan, Queued, InProgress}
    /\ tasks' = change_status(tasks, id, Stopped)
    /\ UNCHANGED <<deps, celery, revoked, aux_store, alive, pc, queues,
                   not_ran_tasks, dep_status, computers, auxiliary, idx, fails,
                   logged, snap_deps, locals>>

(* the submitted tasks are schedulable; one of the requests names a        *)
(* computer that is not registered                                         *)
InitLive ==
    /\ Init
    /\ alive = DockerTable
    /\ \A i \in TaskIds :
          /\ tasks[i].has_dag /\ ~tasks[i].debug /\ tasks[i].cpu = 2
          /\ tasks[i].computer \in {NoName, Unregistered}
          /\ tasks[i].gpu <= 1

(* a step of build() *)
Tick ==
    \/ CreateBase
    \/ ProcessParentTasks
    \/ LoadTasks
    \/ LoadComputers
    \/ ProcessTask
    \/ SendRank
    \/ CommitParent
    \/ WriteAuxiliary

NextLive ==
    \/ Next
    \/ \E i \in TaskIds : stop(i)

SpecLive == InitLive /\ [][NextLive]_vars /\ WF_vars(Tick)

-----------------------------------------------------------------------------
(* Claims *)

Terminal == {Success, Failed, Stopped, Skipped}

(* the task has left NotRan through placement: it was submitted, or got    *)
(* service tasks                                                            *)
Placed(i) ==
    \/ tasks[i].status \in {Queued, InProgress, Success, Failed}
    \/ tasks[i].celery_id # None
    \/ \E k \in 1..Len(celery) : celery[k][1] = i
    \/ children(i) # {}

(* C1: once a tick is over, every task with a dag that it listed as NotRan *)
(* with a dependency that is Failed, Stopped or Skipped has become Skipped *)
(* (and so is not Queued).                                                 *)
C1_FailedDependencySkips ==
    pc = "idle" =>
        \A i \in DOMAIN snap_deps :
            (tasks[i].has_dag /\ snap_deps[i] \cap {Failed, Stopped, Skipped} # {})
                => tasks[i].status = Skipped

(* C2: a task the tick listed is placed only if the statuses of its        *)
(* dependencies, as the store held them when the tick listed it, are none  *)
(* or exactly {Success}; a task whose dependency statuses are non-empty,   *)
(* not {Success} and hold neither Failed nor Stopped stays NotRan with     *)
(* its placement fields unset and nothing submitted.                       *)
C2_OnlyRunnableDispatched ==
    \A i \in DOMAIN snap_deps :
        /\ Placed(i) => snap_deps[i] \in {{}, {Success}}
        /\ ( /\ snap_deps[i] # {}
             /\ snap_deps[i] # {Success}
             /\ Failed \notin snap_deps[i]
             /\ Stopped \notin snap_deps[i] )
           => /\ tasks[i].status = NotRan
              /\ tasks[i].computer_assigned = NoName
              /\ tasks[i].gpu_assigned = None
              /\ tasks[i].celery_id = None
              /\ ~\E k \in 1..Len(celery) : celery[k][1] = i
              /\ children(i) = {}

(* C2 witness: a tick has listed a task whose only dependency is running,  *)
(* that dependency having been dispatched by an earlier tick.              *)
C2_Witness ==
    /\ pc = "idle"
    /\ \E i \in DOMAIN snap_deps :
          /\ snap_deps[i] = {InProgress}
          /\ tasks[i].status = NotRan
          /\ \E e \in deps : e[1] = i /\ tasks[e[2]].celery_id # None

(* C3: right after capacity accounting, no computer has a negative          *)
(* available CPU or memory.                                                 *)
C3_CapacityNeverNegative ==
    (pc = "process_tasks" /\ idx = 1) =>
        \A c \in ComputerNames :
            computers[c].cpu >= 0 /\ computers[c].memory >= 0

(* the step submits task i to the work-queue *)
NewlySent(i) ==
    /\ tasks'[i].celery_id # None
    /\ (i \in DOMAIN tasks => tasks[i].celery_id = None)

(* C4: every dispatch lowers the available CPU and memory of the computer  *)
(* in the tick's snapshot by the CPU and memory request of the task.       *)
C4_DispatchDecrementsCapacity ==
    [][ \A i \in DOMAIN tasks' :
            NewlySent(i) =>
                LET c == tasks'[i].computer_assigned
                IN  /\ computers'[c].cpu = computers[c].cpu - tasks'[i].cpu
                    /\ computers'[c].memory = computers[c].memory - tasks'[i].memory
      ]_vars

(* the entry of the diagnostic trace for the task looked at last *)
LastTrace == auxiliary.process_tasks[Len(auxiliary.process_tasks)]

(* the candidate computers of a task, from the tick's snapshot (4.4 a-e) *)
IsCandidate(c, t) ==
    /\ t.computer = NoName \/ t.computer = c
    /\ computers[c].cpu >= t.cpu
    /\ computers[c].memory >= t.memory
    /\ c \o <<"_">> \o (IF t.docker_img = NoName THEN <<"default">> ELSE t.docker_img)
          \in queues
    /\ t.gpu > 0 => \E k \in DOMAIN computers[c].gpu : computers[c].gpu[k] = 0

(* the free GPU slots of the candidate computers of a task *)
CandidateSlots(t) ==
    { <<c, k>> \in ComputerNames \X (1..3) :
        /\ IsCandidate(c, t)
        /\ k \in DOMAIN computers[c].gpu
        /\ computers[c].gpu[k] = 0 }

(* the task at which the loop stands passes the dependency gate and asks   *)
(* for at least one GPU                                                     *)
AtRunnableGpuTask ==
    /\ AtTask
    /\ tasks[not_ran_tasks[idx]].has_dag
    /\ dep_status[not_ran_tasks[idx]] \in {{}, {Success}}
    /\ tasks[not_ran_tasks[idx]].gpu >= 1

(* the step is the tick's step for that task *)
TickStep == auxiliary' # auxiliary

(* ids are exactly g service tasks of p, ranks 0..g-1 in the order of      *)
(* creation, one port, world_size g                                        *)
ExactRanks(p, ids) ==
    LET g == tasks[p].gpu
    IN  /\ ids \subseteq TaskIds
        /\ Cardinality(ids) = g
        /\ \A i \in ids :
              /\ tasks[i].type = "service"
              /\ tasks[i].parent = p
              /\ tasks[i].distr_info.world_size = g
              /\ tasks[i].distr_info.master_port # None
        /\ { tasks[i].distr_info.rank : i \in ids } = 0..(g - 1)
        /\ \A i, j \in ids :
              /\ i < j => tasks[i].distr_info.rank < tasks[j].distr_info.rank
              /\ tasks[i].distr_info.master_port = tasks[j].distr_info.master_port

(* the tick is done with the task it collected GPU slots for *)
CollectedAndDone ==
    /\ pc \notin {"send", "commit_parent"}
    /\ Len(auxiliary.process_tasks) > 0
    /\ Len(LastTrace.to_send) > 0

C6_ShortfallLeavesNotRan ==
    [][ ( /\ AtRunnableGpuTask
          /\ Cardinality(CandidateSlots(tasks[not_ran_tasks[idx]]))
                < tasks[not_ran_tasks[idx]].gpu
          /\ TickStep )
        => /\ tasks' = tasks
           /\ celery' = celery
           /\ computers' = computers
           /\ tasks'[not_ran_tasks[idx]].status = NotRan
           /\ auxiliary'.process_tasks[Len(auxiliary'.process_tasks)].id
                = not_ran_tasks[idx]
           /\ auxiliary'.process_tasks[Len(auxiliary'.process_tasks)].not_valid
                = "gpu required by the task, but there are only free gpus"
           /\ pc' = "process_tasks"
           /\ idx' = idx + 1
      ]_vars

(* C6 witness: a task that asks for two GPUs met a shortfall while another *)
(* task held GPU slots                                                     *)
C6_Witness ==
    /\ outcome = "gpu shortfall"
    /\ tasks[task].gpu = 2
    /\ tasks[task].status = NotRan
    /\ \E c \in ComputerNames : \E k \in DOMAIN computers[c].gpu : computers[c].gpu[k] # 0

(* the service tasks of one logical task that carry a rendezvous payload *)
Ranks(p) == { i \in children(p) : tasks[i].distr_info # NoDistrInfo }

(* C7 as stated: rank 0 has the address "localhost", every other rank the  *)
(* IP of the computer of rank 0.                                           *)
C7_OtherRanksUseIp ==
    \A i \in TaskIds : tasks[i].distr_info # NoDistrInfo =>
        /\ tasks[i].distr_info.rank = 0 => tasks[i].distr_info.master_addr = localhost
        /\ \A j \in Ranks(tasks[i].parent) :
              (tasks[j].distr_info.rank = 0 /\ tasks[i].distr_info.rank # 0)
                 => tasks[i].distr_info.master_addr
                        = ComputerTable[tasks[j].computer_assigned].ip

(* C7 amended: a rank on the computer of rank 0 has the address            *)
(* "localhost", a rank on another computer the IP of that computer.        *)
C7_LocalhostOnRendezvousHost ==
    \A i \in TaskIds : tasks[i].distr_info # NoDistrInfo =>
        /\ tasks[i].distr_info.rank = 0 => tasks[i].distr_info.master_addr = localhost
        /\ \A j \in Ranks(tasks[i].parent) :
              tasks[j].distr_info.rank = 0
                 => tasks[i].distr_info.master_addr
                        = IF tasks[i].computer_assigned = tasks[j].computer_assigned
                          THEN localhost
                          ELSE ComputerTable[tasks[j].computer_assigned].ip

(* C7 witness: a rank placed on another computer than rank 0 *)
C7_Witness ==
    \E i, j \in TaskIds :
        /\ tasks[i].parent = tasks[j].parent
        /\ tasks[i].parent # None
        /\ tasks[j].distr_info.rank = 0
        /\ tasks[i].distr_info.rank = 1
        /\ tasks[i].computer_assigned # tasks[j].computer_assigned
        /\ tasks[i].distr_info.master_addr = ComputerTable[tasks[j].computer_assigned].ip
        /\ tasks[i].distr_info.master_addr # localhost

(* C8: no two Queued or InProgress tasks hold the same GPU of the same     *)
(* computer.                                                               *)
C8_NoGpuDoubleBooked ==
    \A i, j \in TaskIds :
        ( /\ i # j
          /\ tasks[i].status \in {Queued, InProgress}
          /\ tasks[j].status \in {Queued, InProgress}
          /\ tasks[i].gpu_assigned # None
          /\ tasks[i].computer_assigned # NoName )
        => ~( /\ tasks[i].computer_assigned = tasks[j].computer_assigned
              /\ tasks[i].gpu_assigned = tasks[j].gpu_assigned )

(* every service task of this placement has been submitted and persisted *)
AllRanksSent(p) ==
    /\ Cardinality(created) = tasks[p].gpu
    /\ \A i \in created :
          /\ tasks[i].parent = p
          /\ tasks[i].status \in {Queued, InProgress, Success, Failed}
          /\ tasks[i].celery_id # None
          /\ tasks[i].computer_assigned # NoName
          /\ \E k \in 1..Len(celery) : celery[k][1] = i

(* C9: a task asking for g >= 1 GPUs goes from NotRan to Queued only in a  *)
(* state where all g service tasks of the placement are created, submitted *)
(* and persisted; and it is NotRan after a tick that raised while placing  *)
(* it.                                                                     *)
C9_ParentQueuedAfterAllRanks ==
    /\ [][ \A p \in TaskIds :
              ( /\ tasks[p].gpu >= 1
                /\ tasks[p].status = NotRan
                /\ tasks'[p].status = Queued )
              => AllRanksSent(p)
         ]_vars
    /\ []( ( /\ pc = "idle"
             /\ outcome = "raised"
             /\ tasks[task].gpu >= 1 )
           => tasks[task].status = NotRan )

(* C9 witness: a submission raised after the first of two ranks was sent *)
C9_Witness ==
    /\ pc = "idle"
    /\ logged = "apply_async"
    /\ tasks[task].gpu = 2
    /\ tasks[task].status = NotRan
    /\ Cardinality(created) = 2
    /\ \E i \in created : tasks[i].status = Queued
    /\ \E i \in created : tasks[i].status = NotRan

(* every port of the docker of the task on computer c is reserved in the   *)
(* tick's snapshot                                                         *)
PortsExhausted(c, t) ==
    \A d \in DockerTable :
        (d.computer = c /\ d.name = (IF t.docker_img = NoName THEN <<"default">>
                                     ELSE t.docker_img))
            => \A port \in d.ports[1]..d.ports[2] : port \in computers[c].ports

(* the first candidate computer, on which rank 0 is placed *)
RendezvousHost(t) ==
    ComputerOrder[CHOOSE k \in 1..Len(ComputerOrder) :
                      /\ IsCandidate(ComputerOrder[k], t)
                      /\ \A j \in 1..(k - 1) : ~IsCandidate(ComputerOrder[j], t)]

(* C10: when the runnable task at hand asks for g >= 1 GPUs, its           *)
(* candidates hold g free slots and every port of the range of the         *)
(* rendezvous host is reserved, the tick's step creates no task, submits   *)
(* nothing, reports the error and ends the tick with the task NotRan.      *)
C10_PortsExhaustedLeavesNotRan ==
    [][ ( /\ AtRunnableGpuTask
          /\ Cardinality(CandidateSlots(tasks[not_ran_tasks[idx]]))
                >= tasks[not_ran_tasks[idx]].gpu
          /\ PortsExhausted(RendezvousHost(tasks[not_ran_tasks[idx]]),
                            tasks[not_ran_tasks[idx]])
          /\ TickStep )
        => /\ tasks' = tasks
           /\ celery' = celery
           /\ tasks'[not_ran_tasks[idx]].status = NotRan
           /\ logged' = "find_port"
           /\ pc' = "idle"
      ]_vars

(* C10 witness: a tick ended on the exhausted port range *)
C10_Witness ==
    /\ pc = "idle"
    /\ logged = "find_port"
    /\ tasks[task].gpu = 2
    /\ tasks[task].status = NotRan
    /\ children(task) = {}

(* the name of the queue of computer c for the image of task t *)
QueueOf(c, t) ==
    c \o <<"_">> \o (IF t.docker_img = NoName THEN <<"default">> ELSE t.docker_img)

(* the queues whose docker was seen alive *)
HeartbeatQueues == { d.computer \o <<"_">> \o d.name : d \in alive }

(* C11: every dispatch of a tick goes to a computer that was a candidate   *)
(* for the task in the tick's snapshot when the tick chose it: a task      *)
(* asking for no GPU is submitted to a candidate of the snapshot; every    *)
(* computer collected for a task asking for GPUs is a candidate of the     *)
(* snapshot, and each service task is submitted to the queue of a          *)
(* collected computer. A task pinned to a computer that is not registered  *)
(* is never placed, and no task is ever assigned to a computer whose       *)
(* queue is not alive.                                                     *)
C11_DispatchOnlyToCandidates ==
    /\ [][ /\ \A i \in DOMAIN tasks' :
                (NewlySent(i) /\ tasks'[i].type = "user") =>
                    /\ IsCandidate(tasks'[i].computer_assigned, tasks[i])
                    /\ celery' = Append(celery,
                          <<i, QueueOf(tasks'[i].computer_assigned, tasks[i])>>)
           /\ (pc = "process_tasks" /\ pc' = "send") =>
                \A k \in 1..Len(to_send') :
                    /\ IsCandidate(to_send'[k].computer, tasks[task'])
                    /\ to_send'[k].queue = QueueOf(to_send'[k].computer, tasks[task'])
           /\ \A i \in DOMAIN tasks' :
                (NewlySent(i) /\ tasks'[i].type = "service") =>
                    /\ pc = "send"
                    /\ tasks'[i].parent = task
                    /\ tasks'[i].computer_assigned = to_send[rank + 1].computer
                    /\ celery' = Append(celery, <<i, to_send[rank + 1].queue>>)
         ]_vars
    /\ [](\A i \in TaskIds :
            /\ tasks[i].computer \notin (ComputerNames \cup {NoName}) => ~Placed(i)
            /\ tasks[i].computer_assigned # NoName =>
                  /\ tasks[i].computer_assigned \in ComputerNames
                  /\ QueueOf(tasks[i].computer_assigned, tasks[i]) \in HeartbeatQueues)

(* C11 witness: with the queue of B not alive, a tick has dispatched a     *)
(* task to A and found no computer for a task pinned to an unregistered    *)
(* computer                                                                *)
C11_Witness ==
    /\ alive # DockerTable
    /\ outcome = "no computer"
    /\ tasks[task].computer = Unregistered
    /\ tasks[task].status = NotRan
    /\ \E j \in TaskIds : tasks[j].computer_assigned = A /\ tasks[j].status = Queued

(* the task at which the loop stands passes the dependency gate and asks   *)
(* for no GPU                                                               *)
AtRunnableCpuTask ==
    /\ AtTask
    /\ tasks[not_ran_tasks[idx]].has_dag
    /\ dep_status[not_ran_tasks[idx]] \in {{}, {Success}}
    /\ tasks[not_ran_tasks[idx]].gpu = 0

(* C12: the tick's step for a runnable task asking for no GPU submits it   *)
(* once, to the queue of the first candidate computer in the order of the  *)
(* snapshot, and persists it Queued and assigned to that computer, no      *)
(* other row changing; without a candidate the step changes no row and     *)
(* submits nothing. No such task is ever submitted twice.                  *)
C12_FirstCandidateOnce ==
    /\ [][ (AtRunnableCpuTask /\ TickStep) =>
             LET id == not_ran_tasks[idx]
                 t == tasks[id]
             IN  IF \E c \in ComputerNames : IsCandidate(c, t)
                 THEN /\ tasks' = [tasks EXCEPT
                                      ![id].status = Queued,
                                      ![id].computer_assigned = RendezvousHost(t),
                                      ![id].celery_id = Len(celery) + 1]
                      /\ celery' = Append(celery, <<id, QueueOf(RendezvousHost(t), t)>>)
                 ELSE /\ tasks' = tasks
                      /\ tasks'[id].status = NotRan
                      /\ celery' = celery
         ]_vars
    /\ [](\A i \in TaskIds :
            tasks[i].gpu = 0 =>
                Cardinality({ k \in 1..Len(celery) : celery[k][1] = i }) <= 1)

(* C12 witness: a task asking for no GPU went to A while B was a           *)
(* candidate too                                                           *)
C12_Witness ==
    /\ outcome = "sent"
    /\ tasks[task].gpu = 0
    /\ tasks[task].computer = NoName
    /\ tasks[task].computer_assigned = A
    /\ tasks[task].status = Queued
    /\ alive = DockerTable
    /\ computers[B].cpu >= tasks[task].cpu
    /\ computers[B].memory >= tasks[task].memory

(* the tasks that are Queued or InProgress and assigned to computer c *)
ActiveOn(c) ==
    { i \in TaskIds : /\ tasks[i].status \in {Queued, InProgress}
                      /\ tasks[i].computer_assigned = c }

(* the sum of the CPU requests, and of the memory requests, of the first n *)
(* tasks that are active on c                                              *)
RECURSIVE CpuHeld(_, _)
CpuHeld(c, n) ==
    IF n = 0 THEN 0
    ELSE (IF n \in ActiveOn(c) THEN tasks[n].cpu ELSE 0) + CpuHeld(c, n - 1)

RECURSIVE MemoryHeld(_, _)
MemoryHeld(c, n) ==
    IF n = 0 THEN 0
    ELSE (IF n \in ActiveOn(c) THEN tasks[n].memory ELSE 0) + MemoryHeld(c, n - 1)

(* C13: the step of Capacity Accounting leaves, for every computer, the    *)
(* available CPU and memory at the registry's totals minus the requests of *)
(* the Queued and InProgress tasks assigned to it, the retained totals at  *)
(* the registry's totals, and a GPU vector as long as the GPU count whose  *)
(* slot is taken exactly if such a task holds its index.                   *)
C13_CapacityAccounting ==
    [][ (pc = "load_computers" /\ pc' = "process_tasks") =>
          \A c \in ComputerNames :
            /\ computers'[c].cpu = ComputerTable[c].cpu - CpuHeld(c, Len(tasks))
            /\ computers'[c].memory = ComputerTable[c].memory - MemoryHeld(c, Len(tasks))
            /\ computers'[c].cpu_total = ComputerTable[c].cpu
            /\ computers'[c].memory_total = ComputerTable[c].memory
            /\ computers'[c].gpu_total = ComputerTable[c].gpu
            /\ Len(computers'[c].gpu) = ComputerTable[c].gpu
            /\ \A k \in 1..Len(computers'[c].gpu) :
                  computers'[c].gpu[k] # 0
                     <=> \E i \in ActiveOn(c) : tasks[i].gpu_assigned = k - 1
      ]_vars

(* C13 witness: accounting has just run with a GPU task and a task asking  *)
(* for no GPU active on A                                                  *)
C13_Witness ==
    /\ pc = "process_tasks"
    /\ idx = 1
    /\ \E i, j \in ActiveOn(A) :
          /\ tasks[i].gpu_assigned # None
          /\ tasks[j].gpu_assigned = None
          /\ computers[A].gpu[tasks[i].gpu_assigned + 1] = i
          /\ computers[A].cpu = ComputerTable[A].cpu - CpuHeld(A, Len(tasks))
          /\ computers[A].cpu <= ComputerTable[A].cpu - tasks[i].cpu - tasks[j].cpu

(* the statuses of the children of p *)
ChildStatuses(p) == { tasks[c].status : c \in { x \in TaskIds : tasks[x].parent = p } }

(* the step is the Status Aggregator's *)
AggregatorStep == pc = "process_parent_tasks" /\ pc' = "load_tasks"

(* C14: the Status Aggregator's step gives every Queued or InProgress task *)
(* that has a child the first status of Failed, Skipped, Queued,           *)
(* InProgress, Success that one of its children has.                       *)
C14_AggregationPrecedence ==
    [][ AggregatorStep =>
          \A p \in TaskIds :
            (tasks[p].status \in {Queued, InProgress} /\ ChildStatuses(p) # {}) =>
              LET S == ChildStatuses(p)
                  new == tasks'[p].status
              IN  /\ Failed \in S => new = Failed
                  /\ (Skipped \in S /\ Failed \notin S) => new = Skipped
                  /\ (Queued \in S /\ S \cap {Failed, Skipped} = {}) => new = Queued
                  /\ (InProgress \in S /\ S \cap {Failed, Skipped, Queued} = {})
                        => new = InProgress
                  /\ (Success \in S /\ S \cap {Failed, Skipped, Queued, InProgress} = {})
                        => new = Success
      ]_vars

(* C14 witness: the aggregator has just made Failed a parent whose         *)
(* children are Success and Failed                                         *)
C14_Witness ==
    /\ pc = "load_tasks"
    /\ \E p \in auxiliary.parent_tasks_stats :
          /\ tasks[p].status = Failed
          /\ ChildStatuses(p) = {Success, Failed}

(* the statuses in which a task is not finished *)
NonTerminal == {NotRan, Queued, InProgress}

(* C15: when the aggregator's step moves a parent to Failed or Skipped,    *)
(* the same step leaves every child that was NotRan, Queued or InProgress  *)
(* Stopped, with its work-queue job, if it has one, cancelled, and every   *)
(* child that was finished as it was; after the step no child of the       *)
(* parent is unfinished, so that stopping the children again changes       *)
(* nothing.                                                                *)
C15_CascadeStop ==
    [][ AggregatorStep =>
          \A p \in TaskIds :
            ( /\ tasks[p].status \in {Queued, InProgress}
              /\ tasks'[p].status \in {Failed, Skipped} ) =>
                \A c \in TaskIds :
                  tasks[c].parent = p =>
                    /\ tasks[c].status \in NonTerminal =>
                          /\ tasks'[c] = [tasks[c] EXCEPT !.status = Stopped]
                          /\ tasks[c].celery_id # None
                                => tasks[c].celery_id \in revoked'
                    /\ tasks[c].status \notin NonTerminal => tasks'[c] = tasks[c]
                    /\ tasks'[c].status \notin NonTerminal
      ]_vars

(* C15 witness: the aggregator has just made a parent Failed and stopped   *)
(* its other child, whose job is cancelled                                 *)
C15_Witness ==
    /\ pc = "load_tasks"
    /\ \E p \in auxiliary.parent_tasks_stats :
          /\ tasks[p].status = Failed
          /\ \E c, d \in TaskIds :
                /\ tasks[c].parent = p
                /\ tasks[d].parent = p
                /\ tasks[c].status = Failed
                /\ tasks[d].status = Stopped
                /\ tasks[d].celery_id \in revoked

(* C16: no step changes the status of a task that is Success, Failed,      *)
(* Stopped or Skipped, or submits such a task to the work-queue; a step of *)
(* the gate or of placement that takes a task out of NotRan makes it       *)
(* Queued or Skipped.                                                      *)
C16_TerminalAbsorbing ==
    [][ \A i \in TaskIds :
          /\ tasks[i].status \in Terminal =>
                /\ tasks'[i].status = tasks[i].status
                /\ \A k \in (Len(celery) + 1)..Len(celery') : celery'[k][1] # i
          /\ ( /\ pc \in {"process_tasks", "send", "commit_parent"}
               /\ tasks[i].status = NotRan
               /\ tasks'[i].status # NotRan )
             => tasks'[i].status \in {Queued, Skipped}
      ]_vars

(* C16 witness: a tick has run to its end after the aggregator made a      *)
(* parent Failed and stopped a child of it                                 *)
C16_Witness ==
    /\ pc = "idle"
    /\ logged = ""
    /\ aux_store # <<>>
    /\ aux_store.parent_tasks_stats = {}
    /\ \E p, c \in TaskIds :
          /\ tasks[c].parent = p
          /\ tasks[p].status = Failed
          /\ tasks[c].status = Stopped

(* the positions of build(): between two ticks, or at one of its steps *)
TickPositions ==
    {"idle", "process_parent_tasks", "load_tasks", "load_computers",
     "process_tasks", "send", "commit_parent"}

(* C17: build() is always between two ticks or at one of its steps, never  *)
(* left by an exception; a step in which a collaborator raises ends the    *)
(* tick; and between two ticks the next tick can always start.             *)
C17_FailuresStayInBuild ==
    /\ [](pc \in TickPositions)
    /\ [][fails' # fails => pc' = "idle"]_vars
    /\ [](pc = "idle" => ENABLED CreateBase)

(* C17 witness: a new tick is under way after a tick in which a            *)
(* collaborator raised                                                     *)
C17_Witness ==
    /\ fails = 1
    /\ pc = "load_computers"
    /\ logged = ""

(* the task has an entry in the work-queue *)
Submitted(i) == \E k \in 1..Len(celery) : celery[k][1] = i

(* C18: in every state in which a tick can stop, every task that was       *)
(* submitted to the work-queue is persisted as dispatched (no longer       *)
(* NotRan) with its assigned computer, every task persisted as NotRan was  *)
(* not submitted, and no task has two entries in the work-queue.           *)
C18_StoreAgreesWithQueue ==
    \A i \in TaskIds :
        /\ Submitted(i) =>
              /\ tasks[i].status # NotRan
              /\ tasks[i].computer_assigned # NoName
        /\ tasks[i].status = NotRan => ~Submitted(i)
        /\ Cardinality({ k \in 1..Len(celery) : celery[k][1] = i }) <= 1

StoredDescribesTick ==
    /\ aux_store'.name = "supervisor"
    /\ aux_store'.queues = queues
    /\ aux_store'.not_ran_tasks = auxiliary.not_ran_tasks
    /\ aux_store'.computers = computers
    /\ aux_store'.process_tasks = auxiliary.process_tasks

(* the step ends a tick *)
TickEnds == pc # "idle" /\ pc' = "idle"

(* the step ends a tick that has looked at every task it listed *)
TickCompletes ==
    /\ pc = "process_tasks"
    /\ idx > Len(not_ran_tasks)
    /\ pc' = "idle"
    /\ fails' = fails

RECURSIVE StoreNotRan(_)
StoreNotRan(n) ==
    IF n = 0 THEN <<>>
    ELSE StoreNotRan(n - 1) \o
         (IF tasks[n].status = NotRan /\ ~tasks[n].debug THEN <<n>> ELSE <<>>)

(* the statuses of the dependencies of task i in the store *)
StoreDepStatus(i) ==
    { tasks[e[2]].status : e \in { d \in deps : d[1] = i /\ d[2] \in TaskIds } }

(* the capacity record of computer c that the store determines *)
StoreCapacity(c) ==
    [name |-> c,
     ip |-> ComputerTable[c].ip,
     cpu |-> ComputerTable[c].cpu - CpuHeld(c, Len(tasks)),
     memory |-> ComputerTable[c].memory - MemoryHeld(c, Len(tasks)),
     gpu |-> [k \in 1..ComputerTable[c].gpu |->
                LET holders == { i \in ActiveOn(c) : tasks[i].gpu_assigned = k - 1 }
                IN  IF holders = {} THEN 0
                    ELSE CHOOSE i \in holders : \A j \in holders : j <= i],
     ports |-> { tasks[i].distr_info.master_port :
                    i \in { j \in ActiveOn(c) : /\ tasks[j].distr_info # NoDistrInfo
                                                /\ tasks[j].distr_info.rank = 0 } },
     cpu_total |-> ComputerTable[c].cpu,
     memory_total |-> ComputerTable[c].memory,
     gpu_total |-> ComputerTable[c].gpu]

(* C21: whatever the ticks before have left in memory, the step that       *)
(* starts a tick sets the alive queues and an empty trace from the store,  *)
(* the step of load_tasks that goes on sets the not-run list and the       *)
(* dependency statuses from the store, and the step of load_computers sets *)
(* capacity, GPU slots and reserved ports from the store and starts the    *)
(* loop at the first listed task; so the state a tick places from is a     *)
(* function of the persisted state.                                        *)
C21_TickStateRebuilt ==
    [][ /\ (pc = "idle" /\ pc' = "process_parent_tasks") =>
              /\ queues' = HeartbeatQueues
              /\ auxiliary' = EmptyAux
        /\ (pc = "load_tasks" /\ pc' = "load_computers") =>
              /\ not_ran_tasks' = StoreNotRan(Len(tasks))
              /\ dep_status' = [i \in Range(StoreNotRan(Len(tasks))) |-> StoreDepStatus(i)]
        /\ (pc = "load_computers" /\ pc' = "process_tasks") =>
              /\ computers' = [c \in ComputerNames |-> StoreCapacity(c)]
              /\ idx' = 1
              /\ to_send = <<>> /\ rank = 0 /\ master_port = None
      ]_vars

(* C21 witness: a tick has listed its tasks and is about to rebuild the    *)
(* capacity while the records left in memory by the tick before differ    *)
(* from what the store determines                                          *)
C21_Witness ==
    /\ pc = "load_computers"
    /\ computers # <<>>
    /\ computers # [c \in ComputerNames |-> StoreCapacity(c)]
    /\ not_ran_tasks = StoreNotRan(Len(tasks))
    /\ \E i \in 1..Len(celery) : TRUE

(* C22: the step of load_tasks goes on to capacity accounting with, for    *)
(* every listed task, exactly the set of the statuses of the tasks it      *)
(* depends on (the empty set without a dependency).                        *)
C22_DependencyStatusReturns ==
    [][ (pc = "load_tasks" /\ pc' # "load_tasks") =>
          /\ pc' = "load_computers"
          /\ dep_status' = [i \in Range(StoreNotRan(Len(tasks))) |-> StoreDepStatus(i)]
      ]_vars

(* the ranks of logical task p that were placed on computer c *)
RanksOn(p, c) == { i \in Ranks(p) : tasks[i].computer_assigned = c }

(* C23: the local rank of a service task is the number of ranks of the     *)
(* same logical task collected before it on the same computer, which is    *)
(* the position of its GPU index among those collected there; on each      *)
(* computer the local ranks of one logical task are 0..k-1, each once.     *)
C23_LocalRanks ==
    \A p \in TaskIds : \A c \in ComputerNames :
        LET here == RanksOn(p, c)
        IN  /\ \A i \in here :
                  tasks[i].distr_info.local_rank =
                      Cardinality({ j \in here :
                          tasks[j].distr_info.rank < tasks[i].distr_info.rank })
            /\ \A i, j \in here :
                  i # j => /\ tasks[i].distr_info.local_rank # tasks[j].distr_info.local_rank
                           /\ tasks[i].gpu_assigned # tasks[j].gpu_assigned
            /\ { tasks[i].distr_info.local_rank : i \in here } = 0..(Cardinality(here) - 1)

(* C23 witness: a logical task has two ranks on A, with local ranks 0 and  *)
(* 1, and another logical task a rank on each computer, both local rank 0  *)
C23_Witness ==
    /\ \E p \in TaskIds :
          /\ Cardinality(RanksOn(p, A)) = 2
          /\ { tasks[i].distr_info.local_rank : i \in RanksOn(p, A) } = {0, 1}
    /\ \E q \in TaskIds :
          /\ Cardinality(RanksOn(q, A)) = 1
          /\ Cardinality(RanksOn(q, B)) = 1
          /\ \A i \in Ranks(q) : tasks[i].distr_info.local_rank = 0

(* the rank-0 service tasks that are Queued or InProgress on computer c *)
ActiveRendezvous(c) ==
    { i \in ActiveOn(c) : tasks[i].distr_info # NoDistrInfo /\ tasks[i].distr_info.rank = 0 }

(* C24: no two logical tasks whose rank-0 service tasks are Queued or      *)
(* InProgress on the same computer carry the same rendezvous port.         *)
C24_PortsExclusive ==
    \A c \in ComputerNames : \A i, j \in ActiveRendezvous(c) :
        tasks[i].parent # tasks[j].parent
            => tasks[i].distr_info.master_port # tasks[j].distr_info.master_port


(* C25: between ticks, a logical task requesting g >= 1 GPUs has either    *)
(* no service children or exactly g of them, with the ranks 0..g-1.        *)
C25_AllOrNoChildren ==
    pc = "idle" =>
        \A p \in TaskIds :
            (tasks[p].parent = None /\ tasks[p].gpu >= 1 /\ children(p) # {})
                => /\ Cardinality(children(p)) = tasks[p].gpu
                   /\ { tasks[i].distr_info.rank : i \in children(p) } = 0..(tasks[p].gpu - 1)


(* the placement of the runnable task at hand fails in this step: for a    *)
(* GPU shortfall, for the lack of a candidate computer, or because every   *)
(* rendezvous port of the first candidate is taken                         *)
PlacementFails ==
    /\ AtTask
    /\ Gate(not_ran_tasks[idx]) = "run"
    /\ task' = not_ran_tasks[idx]
    /\ \/ outcome' \in {"gpu shortfall", "no computer", "nothing to send"}
       \/ outcome' = "raised" /\ logged' = "find_port"

(* the task at position j of the not-run list is runnable and has a       *)
(* candidate computer in the tick's snapshot                               *)
Dispatchable(j) ==
    /\ tasks[not_ran_tasks[j]].status = NotRan
    /\ Gate(not_ran_tasks[j]) = "run"
    /\ ValidComputers(tasks[not_ran_tasks[j]]) # <<>>

(* C26: when the placement of the runnable task at hand fails while a      *)
(* task later in the not-run list is runnable and has a candidate          *)
(* computer, the tick goes on to the next listed task, so that the later   *)
(* task is still reached in that tick.                                     *)
C26_FailedPlacementGoesOn ==
    [][ (PlacementFails /\ \E j \in (idx + 1)..Len(not_ran_tasks) : Dispatchable(j))
            => pc' = "process_tasks" /\ idx' = idx + 1 ]_vars


(* the dependency rows of task i name finished tasks only *)
DependenciesTerminal(i) ==
    TrueDepStatus(i) # {} /\ TrueDepStatus(i) \subseteq Terminal

(* C27: under fair repeated ticks, a NotRan task with dependencies that    *)
(* have all reached a terminal status eventually leaves NotRan; when one   *)
(* of them is not Success it eventually becomes Skipped.                   *)
C27_DependentsEventuallyLeaveNotRan ==
    \A i \in 1..NumUserTasks :
        /\ (tasks[i].status = NotRan /\ DependenciesTerminal(i))
              ~> (tasks[i].status # NotRan \/ TrueDepStatus(i) = {Success})
        /\ (tasks[i].status = NotRan /\ DependenciesTerminal(i)
                /\ TrueDepStatus(i) # {Success})
              ~> (tasks[i].status = Skipped)


(* p is a logical task that waits for its service tasks, which have all    *)
(* reached a terminal status                                               *)
ChildrenAllTerminal(p) ==
    /\ tasks[p].status \in {Queued, InProgress}
    /\ children(p) # {}
    /\ ChildStatuses(p) \subseteq Terminal

(* C28: under fair repeated ticks, a parent task that is Queued or         *)
(* InProgress while all its children have reached terminal statuses        *)
(* eventually reaches a terminal status itself.                            *)
C28_ParentEventuallyTerminal ==
    \A p \in 1..NumUserTasks :
        (p \in TaskIds /\ ChildrenAllTerminal(p)) ~> (tasks[p].status \in Terminal)

====
